---- MODULE Spec2Model ----
(***************************************************************************)
(* A model of cf_analyzer: data_collection.py (rating classification, the  *)
(* retrying API client, per-user snapshot construction, feature            *)
(* extraction) and analysis.py (grouping, min-max normalisation, tag and   *)
(* rating-bucket ranking, the group report).                               *)
(*                                                                         *)
(* Python floats are modelled as exact rationals [num, den] in lowest      *)
(* terms; Python dicts as sequences of [key, value] pairs in insertion     *)
(* order; Python lists as sequences.                                       *)
(***************************************************************************)
EXTENDS Integers, Sequences, FiniteSets, TLC

VARIABLES
    \* data_collection.py: the Codeforces API as seen by one run
    ratingsOf,          \* handle -> result of user.rating
    statusOf,           \* handle -> result of user.status
    \* data_collection.py: module state and the __main__ loop
    SNAPSHOTS,
    USER_SUBMISSIONS,
    collected,
    pc,                 \* "running" | "aborted" (uncaught exception)
    lastCall,           \* history: the inputs and the prior SNAPSHOTS of the latest add_snapshots
    \* data_collection.py: one fetch_api call
    url, attempt, slept, fetchState, outcomes,
    \* data_collection.py: analyze_snapshot applied to one snapshot
    snapshot, features,
    \* analysis.py: main
    snapshots, grouped, reports, apc,
    \* analysis.py: min_max_normalise applied to one list
    values, normalised

collectVars == <<ratingsOf, statusOf, SNAPSHOTS, USER_SUBMISSIONS, collected, pc, lastCall>>
fetchVars == <<url, attempt, slept, fetchState, outcomes>>
featureVars == <<snapshot, features>>
analysisVars == <<snapshots, grouped, reports, apc>>
normaliseVars == <<values, normalised>>
vars == <<collectVars, fetchVars, featureVars, analysisVars, normaliseVars>>

----------------------------------------------------------------------------
(* Arithmetic helpers: Python's min/max/sum/len and float division.        *)

Min2(a, b) == IF a < b THEN a ELSE b

Max2(a, b) == IF a > b THEN a ELSE b

Abs(x) == IF x < 0 THEN -x ELSE x

RECURSIVE GCD(_, _)
GCD(a, b) == IF b = 0 THEN a ELSE GCD(b, a % b)

\* n / d as Python computes it (true division), d > 0
Rat(n, d) ==
    LET g == GCD(Abs(n), d)
    IN  [num |-> n \div g, den |-> d \div g]

Zero == Rat(0, 1)

RatMul(a, b) == Rat(a.num * b.num, a.den * b.den)

RatAdd(a, b) == Rat(a.num * b.den + b.num * a.den, a.den * b.den)

RatLess(a, b) == a.num * b.den < b.num * a.den

RatLeq(a, b) == a.num * b.den <= b.num * a.den

RECURSIVE SumSeq(_)
\* sum(s), the list split in halves to keep the evaluation shallow
SumSeq(s) ==
    IF s = <<>> THEN 0
    ELSE IF Len(s) = 1 THEN s[1]
    ELSE LET mid == Len(s) \div 2
         IN  SumSeq(SubSeq(s, 1, mid)) + SumSeq(SubSeq(s, mid + 1, Len(s)))

RECURSIVE RatSum(_)
RatSum(s) == IF s = <<>> THEN Zero ELSE RatAdd(Head(s), RatSum(Tail(s)))

\* statistics.mean over a non-empty list of ints
MeanInt(s) == Rat(SumSeq(s), Len(s))

\* statistics.mean over a non-empty list of floats
MeanRat(s) == LET t == RatSum(s) IN Rat(t.num, t.den * Len(s))

\* max(s, default=default)
MaxSeq(s, default) ==
    IF s = <<>> THEN default
    ELSE CHOOSE m \in {s[i] : i \in 1..Len(s)} : \A i \in 1..Len(s) : s[i] <= m

\* [f(x) for x in s]
Map(s, F(_)) == [i \in 1..Len(s) |-> F(s[i])]

\* dict.get(key, default) on a record
Get(rec, key, default) == IF key \in DOMAIN rec THEN rec[key] ELSE default

\* A dict as a sequence of [key, value] pairs in insertion order
DictKeys(d) == [i \in 1..Len(d) |-> d[i].key]

DictHas(d, k) == \E i \in 1..Len(d) : d[i].key = k

DictGet(d, k, default) ==
    IF DictHas(d, k) THEN d[CHOOSE i \in 1..Len(d) : d[i].key = k].value ELSE default

DictPut(d, k, v) ==
    IF DictHas(d, k)
    THEN [i \in 1..Len(d) |-> IF d[i].key = k THEN [key |-> k, value |-> v] ELSE d[i]]
    ELSE Append(d, [key |-> k, value |-> v])

----------------------------------------------------------------------------
(* data_collection.py: classify_rating_growth                              *)

classify_rating_growth_ge(growth) ==
    IF growth >= 400 THEN "EXPLOSIVE"
    ELSE IF growth >= 300 THEN "VERY_HIGH"
    ELSE IF growth >= 150 THEN "HIGH"
    ELSE IF growth >= 75 THEN "MODERATE"
    ELSE IF growth >= 0 THEN "NEUTRAL"
    ELSE IF growth >= -75 THEN "SLIGHT_DECLINE"
    ELSE IF growth >= -150 THEN "DECLINE"
    ELSE "STEEP_DECLINE"

classify_rating_growth(growth) ==
    IF growth > 400 THEN "EXPLOSIVE"
    ELSE IF growth > 300 THEN "VERY_HIGH"
    ELSE IF growth > 150 THEN "HIGH"
    ELSE IF growth > 75 THEN "MODERATE"
    ELSE IF growth >= 0 THEN "NEUTRAL"
    ELSE IF growth >= -75 THEN "SLIGHT_DECLINE"
    ELSE IF growth >= -150 THEN "DECLINE"
    ELSE "STEEP_DECLINE"

RatingGrowth ==
    {"EXPLOSIVE", "VERY_HIGH", "HIGH", "MODERATE", "NEUTRAL",
     "SLIGHT_DECLINE", "DECLINE", "STEEP_DECLINE"}

----------------------------------------------------------------------------
(* data_collection.py: compute_tag_ratios and analyze_snapshot             *)

\* the (problem, position) pairs at which tag occurs
TagOccurrences(problems, tag) ==
    UNION {{<<i, j>> : j \in {j \in 1..Len(problems[i].tags) : problems[i].tags[j] = tag}} :
           i \in 1..Len(problems)}

\* whether occurrence a comes before occurrence b in the two nested loops
OccursBefore(a, b) == a[1] < b[1] \/ (a[1] = b[1] /\ a[2] < b[2])

FirstOccurrence(problems, tag) ==
    CHOOSE a \in TagOccurrences(problems, tag) :
        \A b \in TagOccurrences(problems, tag) : a = b \/ OccursBefore(a, b)

\* {tag: count / total for tag, count in sorted(tag_counts.items(), key=lambda x: -x[1])}:
\* tag_counts holds each tag once, keyed in the order of first occurrence, with
\* the number of its occurrences; the sort is stable
compute_tag_ratios(problems) ==
    LET total == Len(problems)
        tags == UNION {{problems[i].tags[j] : j \in 1..Len(problems[i].tags)} :
                       i \in 1..Len(problems)}
        count == [t \in tags |-> Cardinality(TagOccurrences(problems, t))]
        first == [t \in tags |-> FirstOccurrence(problems, t)]
        rank == [t \in tags |->
                    Cardinality({u \in tags :
                        \/ count[u] > count[t]
                        \/ count[u] = count[t] /\ OccursBefore(first[u], first[t])}) + 1]
    IN  IF total = 0 THEN <<>>
        ELSE [r \in 1..Cardinality(tags) |->
                LET t == CHOOSE t \in tags : rank[t] = r
                IN  [key |-> t, value |-> Rat(count[t], total)]]

BucketKeys == <<"<=800", "<=1200", "<=1600", "<=2000", "<=2400", "<=3000", ">3000">>

\* the if/elif chain over the bucket upper bounds, with < where the code has <=
RatingBucketStrict(r) ==
    IF r < 800 THEN "<=800"
    ELSE IF r < 1200 THEN "<=1200"
    ELSE IF r < 1600 THEN "<=1600"
    ELSE IF r < 2000 THEN "<=2000"
    ELSE IF r < 2400 THEN "<=2400"
    ELSE IF r < 3000 THEN "<=3000"
    ELSE ">3000"

\* the if/elif chain over the bucket upper bounds
RatingBucket(r) ==
    IF r <= 800 THEN "<=800"
    ELSE IF r <= 1200 THEN "<=1200"
    ELSE IF r <= 1600 THEN "<=1600"
    ELSE IF r <= 2000 THEN "<=2000"
    ELSE IF r <= 2400 THEN "<=2400"
    ELSE IF r <= 3000 THEN "<=3000"
    ELSE ">3000"

\* rating_buckets after the for loop: bucket -> count, in the dict's key order
RatingBuckets(ratings) ==
    [i \in 1..Len(BucketKeys) |->
        [key |-> BucketKeys[i],
         value |-> Cardinality({j \in 1..Len(ratings) : RatingBucket(ratings[j]) = BucketKeys[i]})]]

IsAccepted(p) == p.verdict = "OK"

IsRated(p) == p.rating > 0

ProblemRating(p) == p.rating

analyze_snapshot(snap) ==
    LET problems == snap.problems_last_30
        rating_at_t == snap.rating_at_t
        accepted == SelectSeq(problems, IsAccepted)
        ratings == Map(SelectSeq(accepted, IsRated), ProblemRating)
        rating_buckets == RatingBuckets(ratings)
        total_rated == Len(ratings)
        Gap(r) == r - rating_at_t
        Above(r) == r > rating_at_t
    IN  [num_attempts |-> Len(problems),
         num_solved |-> Len(accepted),
         solve_rate |-> Rat(Len(accepted), Max2(Len(problems), 1)),
         avg_problem_rating |-> IF ratings # <<>> THEN MeanInt(ratings) ELSE Zero,
         avg_rating_gap |-> IF ratings # <<>> THEN MeanInt(Map(ratings, Gap)) ELSE Zero,
         max_problem_rating |-> MaxSeq(ratings, 0),
         percent_above_rating |->
            Rat(Len(SelectSeq(ratings, Above)), Max2(Len(ratings), 1)),
         all_tag_ratios |-> compute_tag_ratios(problems),
         accepted_tag_ratios |-> compute_tag_ratios(accepted),
         rating_bucket_ratios |->
            [i \in 1..Len(rating_buckets) |->
                [key |-> rating_buckets[i].key,
                 value |-> Rat(rating_buckets[i].value, Max2(total_rated, 1))]]]

----------------------------------------------------------------------------
(* data_collection.py: add_user_submissions and add_snapshots              *)

WINDOW == 30

PERIOD == 5

TARGET_USERS == 20

IsContestant(submission) == submission.author.participantType = "CONTESTANT"

NotContestant(submission) == ~IsContestant(submission)

submission_obj(submission) ==
    [id |-> submission.id,
     time |-> submission.creationTimeSeconds,
     problem_index |-> submission.problem.index,
     type |-> submission.problem.type,
     tags |-> submission.problem.tags,
     rating |-> Get(submission.problem, "rating", 0),
     verdict |-> submission.verdict,
     passedTestCount |-> submission.passedTestCount]

\* USER_SUBMISSIONS[username] after add_user_submissions(username): every
\* fetched submission that is not a CONTESTANT one is appended to the list
add_user_submissions(subs, status) ==
    subs \o Map(SelectSeq(status, NotContestant), submission_obj)

\* sorted(items, key=lambda s: s["time"], reverse=True): the sort is stable, so
\* item i lands after every item with a later time and after the items of the
\* same time that precede it in the list
SortByTimeDesc(items) ==
    LET n == Len(items)
        rank == [i \in 1..n |->
                    Cardinality({j \in 1..n :
                        \/ items[j].time > items[i].time
                        \/ items[j].time = items[i].time /\ j < i}) + 1]
    IN  [r \in 1..n |-> items[CHOOSE i \in 1..n : rank[i] = r]]

\* list[:n]
Take(s, n) == SubSeq(s, 1, Min2(Len(s), n))

\* the window taken without the time filter
Last30Unfiltered(submissions, start_time) ==
    Take(SortByTimeDesc(submissions), WINDOW)

\* sorted([s for s in submissions if s["time"] <= start_time], key=time, reverse=True)[:30]
Last30(submissions, start_time) ==
    LET Eligible(s) == s.time <= start_time
    IN  Take(SortByTimeDesc(SelectSeq(submissions, Eligible)), WINDOW)

\* float("inf") is the tagged value [inf |-> TRUE]
Inf == [inf |-> TRUE, v |-> 0]

MinTime(acc, t) == IF acc.inf \/ t < acc.v THEN [inf |-> FALSE, v |-> t] ELSE acc

RECURSIVE BatchFold(_, _)
\* the inner for loop: rating_growth, start_time, end_time over one batch
BatchFold(batch, acc) ==
    IF batch = <<>> THEN acc
    ELSE BatchFold(Tail(batch),
            [rating_growth |-> acc.rating_growth + Head(batch).newRating - Head(batch).oldRating,
             start_time |-> MinTime(acc.start_time, Head(batch).ratingUpdateTimeSeconds),
             end_time |-> Max2(acc.end_time, Head(batch).ratingUpdateTimeSeconds)])

\* ratings[i : i+period] for the k-th value of range(0, len(ratings), period), k >= 1,
\* cut one event short
BatchShort(ratings, k) ==
    SubSeq(ratings, (k - 1) * PERIOD + 1, Min2(k * PERIOD - 1, Len(ratings)))

\* ratings[i : i+period] for the k-th value of range(0, len(ratings), period), k >= 1
Batch(ratings, k) ==
    SubSeq(ratings, (k - 1) * PERIOD + 1, Min2(k * PERIOD, Len(ratings)))

\* len(range(0, len(ratings), period))
NumBatches(ratings) == (Len(ratings) + PERIOD - 1) \div PERIOD

\* one iteration of the outer loop: the snapshot built from one batch
MakeSnapshot(batch, submissions) ==
    LET acc == BatchFold(batch, [rating_growth |-> 0, start_time |-> Inf, end_time |-> 0])
        snap == [rating_at_t |-> batch[1].oldRating,
                 start_time |-> acc.start_time.v,
                 end_time |-> acc.end_time,
                 rating_growth |-> acc.rating_growth,
                 rating_growth_class |-> classify_rating_growth(acc.rating_growth),
                 problems_last_30 |-> Last30(submissions, acc.start_time.v)]
    IN  [rating_at_t |-> snap.rating_at_t,
         start_time |-> snap.start_time,
         end_time |-> snap.end_time,
         rating_growth |-> snap.rating_growth,
         rating_growth_class |-> snap.rating_growth_class,
         problems_last_30 |-> snap.problems_last_30,
         features |-> analyze_snapshot(snap)]

\* the snapshots the outer loop appends, in order
BuildSnapshots(ratings, submissions) ==
    [k \in 1..NumBatches(ratings) |-> MakeSnapshot(Batch(ratings, k), submissions)]

----------------------------------------------------------------------------
(* The API's answers: bounded families of user.rating and user.status      *)
(* results.                                                                *)

MaxCalls == 2

MaxEvents == 6

MaxSubs == 35

Users == {"alice", "bob"}

\* rating changes of single contests, around every threshold of classify_rating_growth
DeltaPool == <<40, 401, 400, 301, 300, 151, 150, 76, 75, 0, -1, -75, -76, -150, -151>>

TimeBases == {0, 20, 33}

Orders == {"asc", "desc"}

StartRating == 1400

RECURSIVE RatingBefore(_, _)
\* the rating before event i of the feed that starts at DeltaPool[off + 1]
RatingBefore(i, off) ==
    IF i = 1 THEN StartRating
    ELSE RatingBefore(i - 1, off) + DeltaPool[((off + i - 2) % Len(DeltaPool)) + 1]

\* a user.rating result of n events; "desc" lists the latest contest first
RatingFeed(n, off, base, order) ==
    [i \in 1..n |->
        [oldRating |-> RatingBefore(i, off),
         newRating |-> RatingBefore(i + 1, off),
         ratingUpdateTimeSeconds |-> IF order = "asc" THEN base + i ELSE base + n + 1 - i]]

RatingFeeds ==
    {RatingFeed(n, 0, base, order) : n \in 0..MaxEvents, base \in TimeBases, order \in Orders}
    \cup {RatingFeed(1, off, 20, "asc") : off \in 0..(Len(DeltaPool) - 1)}

ProblemRatings == <<0, 800, 801, 1200, 1201, 1600, 1601, 2000, 2001, 2400, 2401, 3000, 3001>>

ProblemTags == << <<>>, <<"dp">>, <<"dp", "graphs">>, <<"math">> >>

SubOrders == {"asc", "desc", "mix"}

\* entry i of a user.status result of n entries; an unrated problem has no "rating" key
StatusEntry(i, n, order) ==
    LET r == ProblemRatings[((i - 1) % Len(ProblemRatings)) + 1]
        base == [index |-> "A", type |-> "PROGRAMMING",
                 tags |-> ProblemTags[((i - 1) % Len(ProblemTags)) + 1]]
    IN  [id |-> i,
         creationTimeSeconds |->
            CASE order = "asc" -> i
              [] order = "desc" -> n + 1 - i
              [] OTHER -> ((i * 7) % n) + 1,
         author |-> [participantType |-> IF i % 16 = 0 THEN "CONTESTANT" ELSE "PRACTICE"],
         problem |-> IF r = 0 THEN base
                     ELSE [index |-> "A", type |-> "PROGRAMMING",
                           tags |-> base.tags, rating |-> r],
         verdict |-> IF i % 3 = 0 THEN "WRONG_ANSWER" ELSE "OK",
         passedTestCount |-> i % 3]

StatusFeed(n, order) == [i \in 1..n |-> StatusEntry(i, n, order)]

StatusFeeds == {StatusFeed(n, order) : n \in {0, 2, MaxSubs}, order \in SubOrders}

DefaultRatings == RatingFeed(2, 0, 20, "asc")

DefaultStatus == StatusFeed(2, "asc")

----------------------------------------------------------------------------
(* data_collection.py: the __main__ loop calling add_snapshots             *)

NoCall == [username |-> "", ratings |-> <<>>, status |-> <<>>, prev |-> <<>>]

\* the parts of the program a specification does not run
CollectIdle ==
    /\ ratingsOf = <<>> /\ statusOf = <<>>
    /\ SNAPSHOTS = <<>> /\ USER_SUBMISSIONS = <<>> /\ collected = <<>>
    /\ pc = "idle" /\ lastCall = NoCall

FetchIdle ==
    url = "" /\ attempt = 0 /\ slept = <<>> /\ fetchState = "idle" /\ outcomes = <<>>

FeaturesIdle == snapshot = [none |-> TRUE] /\ features = [none |-> TRUE]

AnalysisIdle == snapshots = <<>> /\ grouped = <<>> /\ reports = <<>> /\ apc = "idle"

NormaliseIdle == values = <<>> /\ normalised = [none |-> TRUE]

\* one user's answers vary over the families, the other users' are the default ones
InitCollect ==
    /\ \E v \in Users, r \in RatingFeeds, s \in StatusFeeds :
        /\ ratingsOf = [u \in Users |-> IF u = v THEN r ELSE DefaultRatings]
        /\ statusOf = [u \in Users |-> IF u = v THEN s ELSE DefaultStatus]
    /\ SNAPSHOTS = <<>>
    /\ USER_SUBMISSIONS = [u \in Users |-> <<>>]
    /\ collected = <<>>
    /\ pc = "running"
    /\ lastCall = NoCall
    /\ FetchIdle /\ FeaturesIdle /\ AnalysisIdle /\ NormaliseIdle

\* collected.append(username); add_snapshots(username), both fetches answered
add_snapshots(username) ==
    /\ pc = "running"
    /\ Len(collected) < TARGET_USERS
    /\ Len(collected) < MaxCalls
    /\ LET ratings == ratingsOf[username]
           status == statusOf[username]
           submissions == add_user_submissions(USER_SUBMISSIONS[username], status)
       IN  /\ USER_SUBMISSIONS' = [USER_SUBMISSIONS EXCEPT ![username] = submissions]
           /\ SNAPSHOTS' = SNAPSHOTS \o BuildSnapshots(ratings, submissions)
           /\ lastCall' = [username |-> username, ratings |-> ratings,
                           status |-> status, prev |-> SNAPSHOTS]
    /\ collected' = Append(collected, username)
    /\ UNCHANGED <<ratingsOf, statusOf, pc, fetchVars, featureVars, analysisVars, normaliseVars>>

\* collected.append(username); add_snapshots(username) where fetch_api raises:
\* nothing is caught, the run ends before anything is stored
add_snapshots_raises(username) ==
    /\ pc = "running"
    /\ Len(collected) < TARGET_USERS
    /\ Len(collected) < MaxCalls
    /\ collected' = Append(collected, username)
    /\ pc' = "aborted"
    /\ UNCHANGED <<ratingsOf, statusOf, SNAPSHOTS, USER_SUBMISSIONS, lastCall,
                   fetchVars, featureVars, analysisVars, normaliseVars>>

NextCollect ==
    \E username \in Users : add_snapshots(username) \/ add_snapshots_raises(username)

SpecCollect == InitCollect /\ [][NextCollect]_vars

----------------------------------------------------------------------------
(* Properties of add_snapshots, stated on the latest call.                 *)

Called == lastCall.username # ""

\* the snapshots the latest add_snapshots call appended
Appended == SubSeq(SNAPSHOTS, Len(lastCall.prev) + 1, Len(SNAPSHOTS))

Occurrences(seq, x) == Cardinality({i \in 1..Len(seq) : seq[i] = x})

EligibleCount(subs, start_time) ==
    Cardinality({i \in 1..Len(subs) : subs[i].time <= start_time})

WindowIsMostRecent(s, subs) ==
    LET w == s.problems_last_30
    IN  /\ Len(w) <= 30
        /\ \A i \in 1..Len(w) : w[i].time <= s.start_time
        /\ \A i \in 1..(Len(w) - 1) : w[i].time >= w[i + 1].time
        /\ \A i \in 1..Len(w) : Occurrences(w, w[i]) <= Occurrences(subs, w[i])
        /\ Len(w) = Min2(30, EligibleCount(subs, s.start_time))
        /\ \A j \in 1..Len(subs) :
              (subs[j].time <= s.start_time /\ Occurrences(w, subs[j]) < Occurrences(subs, subs[j]))
                  => \A i \in 1..Len(w) : subs[j].time <= w[i].time

\* C1: every snapshot appended by add_snapshots has a window of at most 30
\* submissions of that user, each with time <= start_time, ordered by time
\* descending, and no eligible submission left out of the window is more recent
\* than a member: the window is the 30 most recent eligible submissions, or all
\* of them when fewer than 30 exist.
C1_WindowMostRecent30 ==
    Called => \A k \in 1..Len(Appended) :
                WindowIsMostRecent(Appended[k], USER_SUBMISSIONS[lastCall.username])

\* a first call that truncated a window (more than 30 eligible) and left a
\* submission out of it for its time
C1_Witness ==
    /\ Called
    /\ Len(collected) = 1
    /\ \E k \in 1..Len(Appended) :
          /\ Len(Appended[k].problems_last_30) = 30
          /\ EligibleCount(USER_SUBMISSIONS[lastCall.username], Appended[k].start_time) > 30
    /\ \E k \in 1..Len(Appended) :
          /\ Appended[k].problems_last_30 # <<>>
          /\ EligibleCount(USER_SUBMISSIONS[lastCall.username], Appended[k].start_time)
                < Len(USER_SUBMISSIONS[lastCall.username])

RECURSIVE GrowthOver(_, _, _)
\* the sum of newRating - oldRating over events lo..hi
GrowthOver(ratings, lo, hi) ==
    IF lo > hi THEN 0
    ELSE ratings[lo].newRating - ratings[lo].oldRating + GrowthOver(ratings, lo + 1, hi)

\* C2: for n rating events add_snapshots appends exactly ceil(n/5) snapshots
\* (none, and no error, when n = 0), and the k-th is derived from events
\* 5(k-1)+1 .. min(5k, n) (1-based): rating_growth is the sum of their
\* newRating - oldRating, rating_at_t the oldRating of the first, start_time the
\* minimum and end_time the maximum of their update times.
C2_BatchesOfFive ==
    Called =>
        LET ratings == lastCall.ratings
            n == Len(ratings)
        IN  /\ 5 * Len(Appended) >= n
            /\ 5 * (Len(Appended) - 1) < n
            /\ n = 0 => (Appended = <<>> /\ SNAPSHOTS = lastCall.prev)
            /\ \A k \in 1..Len(Appended) :
                  LET lo == 5 * (k - 1) + 1
                      hi == Min2(5 * k, n)
                      times == {ratings[i].ratingUpdateTimeSeconds : i \in lo..hi}
                      s == Appended[k]
                  IN  /\ s.rating_growth = GrowthOver(ratings, lo, hi)
                      /\ s.rating_at_t = ratings[lo].oldRating
                      /\ s.start_time \in times
                      /\ \A t \in times : s.start_time <= t
                      /\ s.end_time \in times
                      /\ \A t \in times : t <= s.end_time

\* six events, latest first: two snapshots, the second from the sixth event
\* alone, the first with a start_time that is not its first event's time
C2_Witness ==
    /\ Called
    /\ Len(lastCall.ratings) = 6
    /\ Len(Appended) = 2
    /\ Appended[1].start_time # lastCall.ratings[1].ratingUpdateTimeSeconds
    /\ Appended[2].rating_at_t = lastCall.ratings[6].oldRating

\* the 8 classes as disjoint ranges of growth
GrowthClassByRange(g) ==
    CASE g >= 401 -> "EXPLOSIVE"
      [] g \in 301..400 -> "VERY_HIGH"
      [] g \in 151..300 -> "HIGH"
      [] g \in 76..150 -> "MODERATE"
      [] g \in 0..75 -> "NEUTRAL"
      [] g \in -75..-1 -> "SLIGHT_DECLINE"
      [] g \in -150..-76 -> "DECLINE"
      [] g <= -151 -> "STEEP_DECLINE"

\* C8: every snapshot's rating_growth_class is classify_rating_growth of its
\* rating_growth, which is the first match of >400, >300, >150, >75, >=0, >=-75,
\* >=-150, else: one of 8 classes, a boundary value falling in the lower class
\* (400 VERY_HIGH, 300 HIGH, 150 MODERATE, 75 NEUTRAL, -75 SLIGHT_DECLINE,
\* -150 DECLINE, -151 STEEP_DECLINE).
C8_GrowthClass ==
    \A k \in 1..Len(SNAPSHOTS) :
        LET g == SNAPSHOTS[k].rating_growth
            c == SNAPSHOTS[k].rating_growth_class
        IN  /\ c \in RatingGrowth
            /\ c = classify_rating_growth(g)
            /\ c = GrowthClassByRange(g)
            /\ g = 400 => c = "VERY_HIGH"
            /\ g = 300 => c = "HIGH"
            /\ g = 150 => c = "MODERATE"
            /\ g = 75 => c = "NEUTRAL"
            /\ g = -75 => c = "SLIGHT_DECLINE"
            /\ g = -150 => c = "DECLINE"
            /\ g = -151 => c = "STEEP_DECLINE"

\* a snapshot whose growth is exactly 150, classified MODERATE
C8_Witness ==
    \E k \in 1..Len(SNAPSHOTS) :
        SNAPSHOTS[k].rating_growth = 150 /\ SNAPSHOTS[k].rating_growth_class = "MODERATE"

\* C10: the snapshots a call appends are those the same call appends when run
\* alone from the initial empty state with the same fetched rating events and
\* submissions (so no window holds a fetched submission twice), and the
\* snapshots of earlier calls stay unchanged and in place.
C10_IndependentOfEarlierRuns ==
    Called =>
        /\ SubSeq(SNAPSHOTS, 1, Len(lastCall.prev)) = lastCall.prev
        /\ Appended = BuildSnapshots(lastCall.ratings,
                                     add_user_submissions(<<>>, lastCall.status))
        /\ \A k \in 1..Len(Appended) :
              \A i \in 1..Len(Appended[k].problems_last_30) :
                  Occurrences(Appended[k].problems_last_30, Appended[k].problems_last_30[i])
                      <= Occurrences(Map(lastCall.status, submission_obj),
                                     Appended[k].problems_last_30[i])

----------------------------------------------------------------------------
(* data_collection.py: fetch_api, one call followed attempt by attempt     *)

RETRIES == 3

Urls ==
    {<<endpoint, u>> : endpoint \in {"user.rating", "user.status"}, u \in Users}

\* what one attempt can meet: a JSON object with a 'result' key; requests.get
\* raising a RequestException; a JSON object without 'result' (KeyError); a body
\* that is not JSON (json.JSONDecodeError, a ValueError); JSON that is not an
\* object (TypeError on ['result'])
Caught == {"RequestException", "KeyError"}

Uncaught == {"JSONDecodeError", "TypeError"}

InitFetch == FetchIdle /\ CollectIdle /\ FeaturesIdle /\ AnalysisIdle /\ NormaliseIdle

\* fetch_api(url): the for loop is entered with attempt = 0
fetch_api(u) ==
    /\ fetchState = "idle"
    /\ url' = u
    /\ attempt' = 0
    /\ fetchState' = "trying"
    /\ UNCHANGED <<slept, outcomes, collectVars, featureVars, analysisVars, normaliseVars>>

\* the try block runs through: return json.loads(response.text)['result']
attempt_returns ==
    /\ fetchState = "trying"
    /\ outcomes' = Append(outcomes, "ok")
    /\ fetchState' = "returned"
    /\ UNCHANGED <<url, attempt, slept, collectVars, featureVars, analysisVars, normaliseVars>>

\* except (RequestException, KeyError) with attempt < retries - 1: sleep, next attempt
attempt_retried(e) ==
    /\ fetchState = "trying"
    /\ attempt < RETRIES - 1
    /\ outcomes' = Append(outcomes, e)
    /\ slept' = Append(slept, 3 * (attempt + 1))
    /\ attempt' = attempt + 1
    /\ UNCHANGED <<url, fetchState, collectVars, featureVars, analysisVars, normaliseVars>>

\* except (RequestException, KeyError) on the last attempt: raise
attempt_reraised(e) ==
    /\ fetchState = "trying"
    /\ ~(attempt < RETRIES - 1)
    /\ outcomes' = Append(outcomes, e)
    /\ fetchState' = "raised"
    /\ UNCHANGED <<url, attempt, slept, collectVars, featureVars, analysisVars, normaliseVars>>

\* an exception the except clause does not name leaves the function at once
attempt_uncaught(e) ==
    /\ fetchState = "trying"
    /\ outcomes' = Append(outcomes, e)
    /\ fetchState' = "raised"
    /\ UNCHANGED <<url, attempt, slept, collectVars, featureVars, analysisVars, normaliseVars>>

NextFetch ==
    \/ \E u \in Urls : fetch_api(u)
    \/ attempt_returns
    \/ \E e \in Caught : attempt_retried(e)
    \/ \E e \in Caught : attempt_reraised(e)
    \/ \E e \in Uncaught : attempt_uncaught(e)

SpecFetch == InitFetch /\ [][NextFetch]_vars

\* C9: a failed attempt (network error or response-parsing error) is retried
\* after a wait of 3 s, then 6 s; at most 3 attempts are made; the first
\* successful attempt ends the call; an error reaches the caller only after the
\* 3rd attempt has failed.
C9_RetriesTransientFailures ==
    /\ Len(outcomes) <= 3
    /\ slept = SubSeq(<<3, 6>>, 1, Len(slept))
    /\ \A i \in 1..(Len(outcomes) - 1) : outcomes[i] # "ok"
    /\ fetchState = "trying" => Len(slept) = Len(outcomes)
    /\ fetchState = "returned" => outcomes[Len(outcomes)] = "ok"
    /\ fetchState = "raised" =>
          /\ Len(outcomes) = 3
          /\ \A i \in 1..3 : outcomes[i] # "ok"

----------------------------------------------------------------------------
(* data_collection.py: analyze_snapshot on every short window              *)

MaxProblems == 2

Verdicts == {"OK", "WRONG_ANSWER"}

\* a stored submission (the value of submission_obj), most recent first in a window
Problem(i, verdict, rating) ==
    [id |-> i, time |-> MaxProblems + 1 - i, problem_index |-> "A", type |-> "PROGRAMMING",
     tags |-> ProblemTags[((i - 1) % Len(ProblemTags)) + 1],
     rating |-> rating, verdict |-> verdict, passedTestCount |-> 0]

Windows ==
    UNION {{[i \in 1..n |-> Problem(i, v[i], r[i])] :
                v \in [1..n -> Verdicts],
                r \in [1..n -> {ProblemRatings[j] : j \in 1..Len(ProblemRatings)}]} :
           n \in 0..MaxProblems}

InitFeatures ==
    /\ \E w \in Windows :
          snapshot = [rating_at_t |-> StartRating, start_time |-> MaxProblems,
                      end_time |-> MaxProblems, rating_growth |-> 0,
                      rating_growth_class |-> classify_rating_growth(0),
                      problems_last_30 |-> w]
    /\ features = [none |-> TRUE]
    /\ CollectIdle /\ FetchIdle /\ AnalysisIdle /\ NormaliseIdle

\* features = analyze_snapshot(snapshot)
analyze ==
    /\ "none" \in DOMAIN features
    /\ features' = analyze_snapshot(snapshot)
    /\ UNCHANGED <<snapshot, collectVars, fetchVars, analysisVars, normaliseVars>>

NextFeatures == analyze

SpecFeatures == InitFeatures /\ [][NextFeatures]_vars

Analyzed == "rating_bucket_ratios" \in DOMAIN features

\* whether bucket b takes rating r: above the previous bound, up to its own
BucketTakes(b, r) ==
    CASE b = "<=800" -> r <= 800
      [] b = "<=1200" -> r > 800 /\ r <= 1200
      [] b = "<=1600" -> r > 1200 /\ r <= 1600
      [] b = "<=2000" -> r > 1600 /\ r <= 2000
      [] b = "<=2400" -> r > 2000 /\ r <= 2400
      [] b = "<=3000" -> r > 2400 /\ r <= 3000
      [] b = ">3000" -> r > 3000

\* the window's accepted submissions with rating > 0
RatedAccepted(w) == {i \in 1..Len(w) : w[i].verdict = "OK" /\ w[i].rating > 0}

\* C7: rating_bucket_ratios has exactly the 7 fixed keys; an accepted submission
\* with rating > 0 counts in exactly one bucket, the first whose inclusive upper
\* bound is >= its rating (the last is open-ended), so the 7 counts sum to the
\* number of rated-accepted submissions and the ratios sum to 1 when there is
\* one, and all 7 are 0 when there is none; accepted submissions of rating 0 and
\* non-accepted ones count nowhere.
C7_BucketRatios ==
    Analyzed =>
        LET w == snapshot.problems_last_30
            ratios == features.rating_bucket_ratios
            total == Cardinality(RatedAccepted(w))
            InBucket(b) ==
                {i \in RatedAccepted(w) : BucketTakes(b, w[i].rating)}
        IN  /\ Len(ratios) = 7
            /\ DictKeys(ratios) = BucketKeys
            /\ \A i \in 1..7 :
                  ratios[i].value.num * Max2(total, 1)
                      = Cardinality(InBucket(ratios[i].key)) * ratios[i].value.den
            /\ total >= 1 => RatSum(Map(ratios, LAMBDA e : e.value)) = Rat(1, 1)
            /\ total = 0 => \A i \in 1..7 : ratios[i].value = Zero

\* a window of an accepted problem rated 1200 and a failed one rated 1201: the
\* whole ratio is in "<=1200"
C7_Witness ==
    /\ Analyzed
    /\ Len(snapshot.problems_last_30) = 2
    /\ snapshot.problems_last_30[1].rating = 1200
    /\ snapshot.problems_last_30[1].verdict = "OK"
    /\ snapshot.problems_last_30[2].rating = 1201
    /\ snapshot.problems_last_30[2].verdict = "WRONG_ANSWER"
    /\ DictGet(features.rating_bucket_ratios, "<=1200", Zero) = Rat(1, 1)

----------------------------------------------------------------------------
(* analysis.py: min_max_normalise                                          *)

\* a call's outcome: the value returned, or the exception raised
Ok(v) == [raised |-> FALSE, value |-> v]

Raise(e) == [raised |-> TRUE, value |-> e]

\* min(values), values non-empty
MinSeq(s) == CHOOSE m \in {s[i] : i \in 1..Len(s)} : \A i \in 1..Len(s) : m <= s[i]

\* the degenerate case answered with 0.0 in place of 0.5
min_max_normalise_zero(vals) ==
    IF vals = <<>> THEN Raise("ValueError")
    ELSE LET lo == MinSeq(vals)
             hi == MaxSeq(vals, 0)
         IN  IF hi = lo THEN Ok([i \in 1..Len(vals) |-> Zero])
             ELSE Ok([i \in 1..Len(vals) |-> Rat(vals[i] - lo, hi - lo)])

\* min() and max() of an empty list raise ValueError
min_max_normalise(vals) ==
    IF vals = <<>> THEN Raise("ValueError")
    ELSE LET lo == MinSeq(vals)
             hi == MaxSeq(vals, 0)
         IN  IF hi = lo THEN Ok([i \in 1..Len(vals) |-> Rat(1, 2)])
             ELSE Ok([i \in 1..Len(vals) |-> Rat(vals[i] - lo, hi - lo)])

MaxValues == 3

\* rating growths of a group's snapshots
GrowthValues == {-75, 0, 40, 150}

InitNormalise ==
    /\ values \in UNION {[1..n -> GrowthValues] : n \in 0..MaxValues}
    /\ normalised = [none |-> TRUE]
    /\ CollectIdle /\ FetchIdle /\ FeaturesIdle /\ AnalysisIdle

\* normalised = min_max_normalise(values)
normalise ==
    /\ "none" \in DOMAIN normalised
    /\ normalised' = min_max_normalise(values)
    /\ UNCHANGED <<values, collectVars, fetchVars, featureVars, analysisVars>>

NextNormalise == normalise

SpecNormalise == InitNormalise /\ [][NextNormalise]_vars

Normalised == "raised" \in DOMAIN normalised

\* C4: for a non-empty list of integer growths min_max_normalise returns a list
\* of the same length, value v mapped to (v - min)/(max - min): every output in
\* [0,1], each minimum mapped to 0 and each maximum to 1; when all inputs are
\* equal (a single element included) every output is exactly 0.5.
C4_MinMaxNormalise ==
    (Normalised /\ values # <<>>) =>
        LET out == normalised.value
            n == Len(values)
            IsMin(i) == \A j \in 1..n : values[i] <= values[j]
            IsMax(i) == \A j \in 1..n : values[j] <= values[i]
            AllEqual == \A i, j \in 1..n : values[i] = values[j]
        IN  /\ ~normalised.raised
            /\ Len(out) = n
            /\ \A i \in 1..n : RatLeq(Zero, out[i]) /\ RatLeq(out[i], Rat(1, 1))
            /\ AllEqual => \A i \in 1..n : out[i] = Rat(1, 2)
            /\ ~AllEqual =>
                  \A i \in 1..n :
                      /\ IsMin(i) => out[i] = Zero
                      /\ IsMax(i) => out[i] = Rat(1, 1)
                      /\ \A lo, hi \in 1..n :
                            (IsMin(lo) /\ IsMax(hi)) =>
                                out[i].num * (values[hi] - values[lo])
                                    = (values[i] - values[lo]) * out[i].den

\* three distinct growths normalised: the middle one strictly between 0 and 1
C4_Witness ==
    /\ Normalised
    /\ values = <<0, 150, -75>>
    /\ normalised.value = <<Rat(1, 3), Rat(1, 1), Zero>>

\* a list of equal growths normalised to 0.5 each
C4_WitnessEqual ==
    /\ Normalised
    /\ values = <<40, 40>>
    /\ normalised.value = <<Rat(1, 2), Rat(1, 2)>>

----------------------------------------------------------------------------
(* analysis.py: group_snapshots                                            *)

GROUPS ==
    << [name |-> "< 1000", min |-> 0, max |-> 999],
       [name |-> "< 2000", min |-> 1000, max |-> 1999],
       [name |-> "< 3000", min |-> 2000, max |-> 2999] >>

\* g["min"] <= r < g["max"]: the upper end left out
InBandExclusive(g, r) == g.min <= r /\ r < g.max

\* g["min"] <= r <= g["max"]
InBand(g, r) == g.min <= r /\ r <= g.max

\* the inner for loop with its break: the name of the first group whose band
\* holds r, "" when the loop ends without a match
FirstGroup(r) ==
    IF \E i \in 1..Len(GROUPS) : InBand(GROUPS[i], r)
    THEN GROUPS[CHOOSE i \in 1..Len(GROUPS) :
                    /\ InBand(GROUPS[i], r)
                    /\ \A j \in 1..(i - 1) : ~InBand(GROUPS[j], r)].name
    ELSE ""

group_snapshots(snaps) ==
    [name \in {GROUPS[i].name : i \in 1..Len(GROUPS)} |->
        SelectSeq(snaps, LAMBDA sn : FirstGroup(Get(sn, "rating_at_t", 0)) = name)]

----------------------------------------------------------------------------
(* analysis.py: analyse_tags, analyse_problem_ratings, group_summary       *)

BUCKET_ORDER == <<"<=800", "<=1200", "<=1600", "<=2000", "<=2400", "<=3000", ">3000">>

RECURSIVE WeightedPairs(_, _, _, _)
\* the two nested loops from snapshot i on: the (key, score * ratio) pairs in
\* the order they are met; bucket pairs of ratio 0 are skipped
WeightedPairs(snaps, norm_scores, field, i) ==
    IF i > Len(snaps) THEN <<>>
    ELSE LET ratios == Get(Get(snaps[i], "features", <<>>), field, <<>>)
             kept == IF field = "rating_bucket_ratios"
                     THEN SelectSeq(ratios, LAMBDA e : RatLess(Zero, e.value))
                     ELSE ratios
         IN  [j \in 1..Len(kept) |->
                [key |-> kept[j].key, value |-> RatMul(norm_scores[i], kept[j].value)]]
             \o WeightedPairs(snaps, norm_scores, field, i + 1)

RECURSIVE Accumulate(_, _)
\* scores[key].append(value) for every pair, in order (a defaultdict(list))
Accumulate(pairs, scores) ==
    IF pairs = <<>> THEN scores
    ELSE Accumulate(Tail(pairs),
            DictPut(scores, Head(pairs).key,
                    Append(DictGet(scores, Head(pairs).key, <<>>), Head(pairs).value)))

\* the exact sample variance (n - 1 divisor); stdev(scores) is its square root
SampleVariance(scores) ==
    LET m == MeanRat(scores)
        sq == [i \in 1..Len(scores) |->
                LET d == RatAdd(scores[i], [num |-> -m.num, den |-> m.den]) IN RatMul(d, d)]
        t == RatSum(sq)
    IN  Rat(t.num, t.den * (Len(scores) - 1))

\* sorted ascending where the code sorts by the negated score
SortByScoreAsc(items) ==
    LET n == Len(items)
        Score(i) == items[i].value.mean_weighted_score
        rank == [i \in 1..n |->
                    Cardinality({j \in 1..n :
                        \/ RatLess(Score(j), Score(i))
                        \/ Score(j) = Score(i) /\ j < i}) + 1]
    IN  [r \in 1..n |-> items[CHOOSE i \in 1..n : rank[i] = r]]

\* dict(sorted(result.items(), key=lambda x: -x[1]["mean_weighted_score"])): the
\* sort is stable, equal scores keep their order
SortByScoreDesc(items) ==
    LET n == Len(items)
        Score(i) == items[i].value.mean_weighted_score
        rank == [i \in 1..n |->
                    Cardinality({j \in 1..n :
                        \/ RatLess(Score(i), Score(j))
                        \/ Score(j) = Score(i) /\ j < i}) + 1]
    IN  [r \in 1..n |-> items[CHOOSE i \in 1..n : rank[i] = r]]

Growths(snaps) == [i \in 1..Len(snaps) |-> snaps[i].rating_growth]

\* "std" is held squared: the model's numbers are rationals
analyse_tags(snaps) ==
    IF snaps = <<>> THEN Ok(<<>>)
    ELSE LET norm_scores == min_max_normalise(Growths(snaps))
         IN  IF norm_scores.raised THEN norm_scores
             ELSE LET tag_scores ==
                        Accumulate(WeightedPairs(snaps, norm_scores.value,
                                                 "accepted_tag_ratios", 1), <<>>)
                      result ==
                        [i \in 1..Len(tag_scores) |->
                            [key |-> tag_scores[i].key,
                             value |->
                                [mean_weighted_score |-> MeanRat(tag_scores[i].value),
                                 occurrences |-> Len(tag_scores[i].value),
                                 std_squared |->
                                    IF Len(tag_scores[i].value) > 1
                                    THEN SampleVariance(tag_scores[i].value)
                                    ELSE Zero]]]
                  IN  Ok(SortByScoreDesc(result))

\* the function without its `if not snapshots` guard
analyse_problem_ratings_unguarded(snaps) ==
    LET norm_scores == min_max_normalise(Growths(snaps))
    IN  IF norm_scores.raised THEN norm_scores
        ELSE LET bucket_scores ==
                    Accumulate(WeightedPairs(snaps, norm_scores.value,
                                             "rating_bucket_ratios", 1), <<>>)
                 result ==
                    [i \in 1..Len(BUCKET_ORDER) |->
                        LET scores == DictGet(bucket_scores, BUCKET_ORDER[i], <<>>)
                        IN  [key |-> BUCKET_ORDER[i],
                             value |->
                                [mean_weighted_score |->
                                    IF scores # <<>> THEN MeanRat(scores) ELSE Zero,
                                 occurrences |-> Len(scores)]]]
             IN  Ok(SortByScoreDesc(result))

analyse_problem_ratings(snaps) ==
    IF snaps = <<>> THEN Ok(<<>>)
    ELSE LET norm_scores == min_max_normalise(Growths(snaps))
         IN  IF norm_scores.raised THEN norm_scores
             ELSE LET bucket_scores ==
                        Accumulate(WeightedPairs(snaps, norm_scores.value,
                                                 "rating_bucket_ratios", 1), <<>>)
                      result ==
                        [i \in 1..Len(BUCKET_ORDER) |->
                            LET scores == DictGet(bucket_scores, BUCKET_ORDER[i], <<>>)
                            IN  [key |-> BUCKET_ORDER[i],
                                 value |->
                                    [mean_weighted_score |->
                                        IF scores # <<>> THEN MeanRat(scores) ELSE Zero,
                                     occurrences |-> Len(scores)]]]
                  IN  Ok(SortByScoreDesc(result))

None == [none |-> TRUE]

\* the means are held exact; the code rounds them for display
group_summary(snaps) ==
    IF snaps = <<>> THEN <<>>
    ELSE LET withFeatures == SelectSeq(snaps, LAMBDA sn : "features" \in DOMAIN sn)
             solve_rates == [i \in 1..Len(withFeatures) |-> withFeatures[i].features.solve_rate]
             rated == SelectSeq(snaps, LAMBDA sn :
                        RatLess(Zero, Get(Get(sn, "features", <<>>), "avg_problem_rating", Zero)))
             avg_ratings == [i \in 1..Len(rated) |-> rated[i].features.avg_problem_rating]
             avg_gaps == [i \in 1..Len(withFeatures) |-> withFeatures[i].features.avg_rating_gap]
         IN  << [key |-> "snapshot_count", value |-> Len(snaps)],
                [key |-> "mean_rating_growth", value |-> MeanInt(Growths(snaps))],
                [key |-> "mean_solve_rate",
                 value |-> IF solve_rates # <<>> THEN MeanRat(solve_rates) ELSE None],
                [key |-> "mean_avg_problem_rating",
                 value |-> IF avg_ratings # <<>> THEN MeanRat(avg_ratings) ELSE None],
                [key |-> "mean_avg_rating_gap",
                 value |-> IF avg_gaps # <<>> THEN MeanRat(avg_gaps) ELSE None] >>

----------------------------------------------------------------------------
(* analysis.py: print_group_report and main                                *)

TOP_TAGS == 15

\* what the report of one group shows: the summary, the tag table (top 15),
\* the bucket table with its "<-- recommended" marker; raised when a call in it
\* raised
print_group_report(group_name, snaps) ==
    LET summary == group_summary(snaps)
        tags == analyse_tags(snaps)
        prob_ratings == analyse_problem_ratings(snaps)
    IN  IF tags.raised \/ prob_ratings.raised
        THEN [group |-> group_name, raised |-> TRUE, summary |-> summary,
              tags |-> <<>>, tag_rows |-> <<>>, prob_ratings |-> <<>>, bucket_rows |-> <<>>]
        ELSE [group |-> group_name, raised |-> FALSE, summary |-> summary,
              tags |-> tags.value,
              tag_rows |-> Take(tags.value, TOP_TAGS),
              prob_ratings |-> prob_ratings.value,
              bucket_rows |->
                [i \in 1..Len(prob_ratings.value) |->
                    [bucket |-> prob_ratings.value[i].key,
                     score |-> prob_ratings.value[i].value.mean_weighted_score,
                     count |-> prob_ratings.value[i].value.occurrences,
                     recommended |->
                        DictKeys(prob_ratings.value)[1] = prob_ratings.value[i].key]]]

\* the Enum's values, as json.dumps writes rating_growth_class
RatingGrowthValue ==
    [c \in RatingGrowth |->
        CASE c = "EXPLOSIVE" -> ">400"
          [] c = "VERY_HIGH" -> ">300"
          [] c = "HIGH" -> ">150"
          [] c = "MODERATE" -> ">75"
          [] c = "NEUTRAL" -> "0"
          [] c = "SLIGHT_DECLINE" -> ">-75"
          [] c = "DECLINE" -> ">-150"
          [] c = "STEEP_DECLINE" -> ">-300"]

MaxSnapshots == 3

\* a record of snapshots.json: the snapshot add_snapshots builds from a single
\* rating event and the given stored submissions
StoredSnapshot(rating, growth, submissions) ==
    LET sn == MakeSnapshot(<<[oldRating |-> rating, newRating |-> rating + growth,
                              ratingUpdateTimeSeconds |-> MaxProblems + 1]>>,
                           submissions)
    IN  [sn EXCEPT !.rating_growth_class = RatingGrowthValue[@]]

PoolWindows ==
    { <<Problem(1, "OK", 800)>>,
      <<Problem(1, "OK", 1200), Problem(2, "OK", 1201)>> }

\* ratings on both sides of every band edge
BandEdges == {-1, 0, 999, 1999, 2000, 2999, 3000}

SnapshotPool ==
    {StoredSnapshot(1000, g, w) : g \in {-75, 0, 150}, w \in PoolWindows}
    \cup {StoredSnapshot(r, 40, <<>>) : r \in BandEdges}

\* main() after load_snapshots
InitAnalysis ==
    /\ snapshots \in UNION {[1..n -> SnapshotPool] : n \in 0..MaxSnapshots}
    /\ grouped = <<>>
    /\ reports = <<>>
    /\ apc = "loaded"
    /\ CollectIdle /\ FetchIdle /\ FeaturesIdle /\ NormaliseIdle

\* grouped = group_snapshots(snapshots)
group ==
    /\ apc = "loaded"
    /\ grouped' = group_snapshots(snapshots)
    /\ apc' = "reporting"
    /\ UNCHANGED <<snapshots, reports, collectVars, fetchVars, featureVars, normaliseVars>>

\* one iteration of `for g in GROUPS`: print_group_report(name, grouped[name])
report ==
    /\ apc = "reporting"
    /\ LET name == GROUPS[Len(reports) + 1].name
           r == print_group_report(name, grouped[name])
       IN  /\ reports' = Append(reports, r)
           /\ apc' = IF r.raised THEN "aborted"
                     ELSE IF Len(reports) + 1 = Len(GROUPS) THEN "done"
                     ELSE "reporting"
    /\ UNCHANGED <<snapshots, grouped, collectVars, fetchVars, featureVars, normaliseVars>>

NextAnalysis == group \/ report

SpecAnalysis == InitAnalysis /\ [][NextAnalysis]_vars

----------------------------------------------------------------------------
(* Properties of the analysis run.                                         *)

Grouped == apc \in {"reporting", "done", "aborted"}

RatingAtT(sn) == IF "rating_at_t" \in DOMAIN sn THEN sn.rating_at_t ELSE 0

Members(seq) == {seq[i] : i \in 1..Len(seq)}

\* C3: group_snapshots places every snapshot in at most one group: rating_at_t
\* in [0,999] in "< 1000" only, [1000,1999] in "< 2000" only, [2000,2999] in
\* "< 3000" only, outside the three bands (negative or >= 3000) in none; 1999
\* goes to "< 2000" and never to "< 3000"; each group keeps the input order.
C3_GroupExclusive ==
    Grouped =>
        /\ DOMAIN grouped = {"< 1000", "< 2000", "< 3000"}
        /\ grouped["< 1000"] = SelectSeq(snapshots, LAMBDA sn : RatingAtT(sn) \in 0..999)
        /\ grouped["< 2000"] = SelectSeq(snapshots, LAMBDA sn : RatingAtT(sn) \in 1000..1999)
        /\ grouped["< 3000"] = SelectSeq(snapshots, LAMBDA sn : RatingAtT(sn) \in 2000..2999)
        /\ \A i \in 1..Len(snapshots) :
              LET r == RatingAtT(snapshots[i])
                  groups == {g \in DOMAIN grouped : snapshots[i] \in Members(grouped[g])}
              IN  /\ Cardinality(groups) <= 1
                  /\ (r < 0 \/ r >= 3000) => groups = {}
                  /\ r = 1999 => groups = {"< 2000"}

\* snapshots rated 1999, 2000 and 3000 grouped: one in "< 2000", one in
\* "< 3000", the third in no group
C3_Witness ==
    /\ Grouped
    /\ Len(snapshots) = 3
    /\ RatingAtT(snapshots[1]) = 3000
    /\ RatingAtT(snapshots[2]) = 1999
    /\ RatingAtT(snapshots[3]) = 2000
    /\ grouped["< 1000"] = <<>>
    /\ grouped["< 2000"] = <<snapshots[2]>>
    /\ grouped["< 3000"] = <<snapshots[3]>>

Presence(snaps, bucket) ==
    Cardinality({k \in 1..Len(snaps) :
        RatLess(Zero, DictGet(snaps[k].features.rating_bucket_ratios, bucket, Zero))})

\* the bucket table of a report: the 7 buckets once each, a bucket of zero
\* occurrences with score 0 and count 0, scores descending, exactly the first
\* row marked recommended
FullBucketTable(rep, snaps) ==
    LET table == rep.prob_ratings
        rows == rep.bucket_rows
    IN  /\ ~rep.raised
        /\ Len(table) = 7
        /\ \A b \in Members(BUCKET_ORDER) :
              Cardinality({j \in 1..Len(table) : table[j].key = b}) = 1
        /\ \A j \in 1..Len(table) :
              /\ table[j].value.occurrences = Presence(snaps, table[j].key)
              /\ table[j].value.occurrences = 0 => table[j].value.mean_weighted_score = Zero
        /\ \A j \in 1..(Len(table) - 1) :
              RatLeq(table[j + 1].value.mean_weighted_score, table[j].value.mean_weighted_score)
        /\ Len(rows) = Len(table)
        /\ \A j \in 1..Len(rows) :
              /\ rows[j].bucket = table[j].key
              /\ rows[j].score = table[j].value.mean_weighted_score
              /\ rows[j].count = table[j].value.occurrences
              /\ rows[j].recommended <=> j = 1
        /\ Cardinality({j \in 1..Len(rows) : rows[j].recommended}) = 1

----------------------------------------------------------------------------
(* The whole program: each part from its own initial states.               *)

Init == InitCollect \/ InitFetch \/ InitFeatures \/ InitNormalise \/ InitAnalysis

Next == NextCollect \/ NextFetch \/ NextFeatures \/ NextNormalise \/ NextAnalysis

Spec == Init /\ [][Next]_vars

====
